---- MODULE Spec2Model ----
(***************************************************************************)
(* The two stages of the GSA election tooling:                             *)
(*   validate_election_results.py  (roster check, validated/voided split)  *)
(*   compile_validated_results.py  (column map, per-contest vote files)    *)
(*                                                                         *)
(* A Python str is modelled as a sequence of tokens.  A token is either    *)
(* one of the characters the csv format gives a meaning to (the comma,     *)
(* the double quote, the line feed) or an opaque run of ordinary           *)
(* characters ("Yes", "a", "Not in Student List").  A csv row is a         *)
(* sequence of such strings.  Python's 0-based positions are kept.         *)
(***************************************************************************)
EXTENDS Integers, Sequences, FiniteSets, TLC

VARIABLES
    pc,               \* position of the running script
    FACULTY_HEADER,   \* ResultsListFormat.FACULTY_HEADER of the ballot format
    roster_file,      \* records of the student list consumed so far
    students,         \* read_student_list: email -> <<faculty, international>>
    results_header,   \* header row of the ballot file
    voided_file,      \* voided_results.csv: the sequence of writes it holds
    validated_file,   \* validated_results.csv: the sequence of writes it holds
    void_f,           \* handle state: "none" | "open" | "closed"
    validate_f,       \* handle state: "none" | "open" | "closed"
    summary,          \* [entries, validated, voided]
    warnings,         \* number of "Bad formatting" messages printed
    last,             \* the row processed last and what was done with it
    opts_config,      \* --config: [given, doc]
    config,           \* the name "config" of __main__: [bound, val]
    election_columns, \* build_election_columns(config)
    election_files,   \* contest -> handle state, "open" | "closed"
    streams,          \* contest -> the (identity, vote) records its file holds
    vote_warnings,    \* contest -> number of "Empty ... vote" messages printed
    slots,            \* contest -> [empty, filled]: the vote slots read so far
    reads,            \* the positions of the last row that were read, in order
    nrows,            \* rows the compile stage has taken from its reader
    compiled_rows     \* the rows the compile stage's csv reader yields

vvars == <<pc, FACULTY_HEADER, roster_file, students, results_header,
           voided_file, validated_file, void_f, validate_f, summary,
           warnings, last>>

cvars == <<opts_config, config, election_columns, election_files, streams,
           vote_warnings, slots, reads, nrows>>

vars == <<vvars, cvars, compiled_rows>>

-----------------------------------------------------------------------------
(* Bounds of the model *)

MaxRoster == 2
MaxRows == 2

-----------------------------------------------------------------------------
(* Python primitives *)

COMMA == ","
QUOTE == "\""
LF == "\n"

\* str.lower(), token by token
LowerTok(t) ==
    CASE t = "A" -> "a"
      [] t = "B" -> "b"
      [] t \in {"SCIENCE", "Science"} -> "science"
      [] t \in {"ARTS", "Arts"} -> "arts"
      [] OTHER -> t

\* str.title(), token by token
TitleTok(t) ==
    CASE t \in {"science", "SCIENCE"} -> "Science"
      [] t \in {"arts", "ARTS"} -> "Arts"
      [] t = "a" -> "A"
      [] t = "b" -> "B"
      [] OTHER -> t

lower(s) == [i \in 1..Len(s) |-> LowerTok(s[i])]
title(s) == [i \in 1..Len(s) |-> TitleTok(s[i])]

\* seq[i] of Python: 0-based, negative positions count from the end
IndexOK(seq, i) == i >= -Len(seq) /\ i < Len(seq)
Item(seq, i) == IF i >= 0 THEN seq[i + 1] ELSE seq[Len(seq) + i + 1]

RECURSIVE Flatten(_)
Flatten(ss) == IF ss = <<>> THEN <<>> ELSE Head(ss) \o Flatten(Tail(ss))

\* ",".join(row)
RECURSIVE join(_)
join(row) ==
    IF row = <<>> THEN <<>>
    ELSE IF Len(row) = 1 THEN row[1]
    ELSE row[1] \o <<COMMA>> \o join(Tail(row))

linesep == <<LF>>

-----------------------------------------------------------------------------
(* validate_election_results.py *)

StudentList_EMAIL_HEADER == 5
StudentList_FACULTY_HEADER == 0
StudentList_INTERNATIONAL_HEADER == 6
StudentList_INTERNATIONAL_LABEL == <<"Visa">>

Results_EMAIL_HEADER == 1
Results_INTERNATIONAL_HEADER == 2
Results_INTERNATIONAL_LABEL == <<"Yes">>

PyBool(b) == IF b THEN "True" ELSE "False"

\* One record of the student list: the try block of read_student_list.
StudentParses(row) ==
    /\ IndexOK(row, StudentList_EMAIL_HEADER)
    /\ IndexOK(row, StudentList_FACULTY_HEADER)
    /\ IndexOK(row, StudentList_INTERNATIONAL_HEADER)

StudentKey(row) == lower(Item(row, StudentList_EMAIL_HEADER))

StudentEntry(row) ==
    << title(Item(row, StudentList_FACULTY_HEADER)),
       PyBool(Item(row, StudentList_INTERNATIONAL_HEADER)
                = StudentList_INTERNATIONAL_LABEL) >>

\* students[email] = [faculty, international]: a later record replaces an
\* earlier one of the same email.
Store(studs, k, v) ==
    [e \in DOMAIN studs \cup {k} |-> IF e = k THEN v ELSE studs[e]]

read_student_row(studs, row) ==
    IF StudentParses(row)
    THEN Store(studs, StudentKey(row), StudentEntry(row))
    ELSE studs

\* The comment strings and the header line of an output file.
results_datetime_str == <<"Results From ", "<now>">>

Write(kind, row, text) == [kind |-> kind, row |-> row, text |-> text]

\* A mutation of the header writer: the header line is left out, as it is
\* when header_str is None.
write_results_header_without_header(comment_str, header_row) ==
    << Write("comment", <<>>, <<"# ">> \o comment_str \o linesep),
       Write("comment", <<>>, <<"# ">> \o results_datetime_str \o linesep) >>

\* write_results_header opens with mode 'w': what the file held is dropped.
write_results_header(comment_str, header_row) ==
    << Write("comment", <<>>, <<"# ">> \o comment_str \o linesep),
       Write("comment", <<>>, <<"# ">> \o results_datetime_str \o linesep),
       Write("header", header_row, join(header_row) \o linesep) >>

\* void_student: f.write(",".join(row + [reason]) + os.linesep)
void_student(f, row, reason) ==
    Append(f, Write("row", Append(row, reason),
                    join(Append(row, reason)) \o linesep))

\* validate_student: f.write(",".join(row) + os.linesep)
validate_student(f, row) ==
    Append(f, Write("row", row, join(row) \o linesep))

\* The try block of the row loop: an IndexError skips the row.
RowParses(row, fh) ==
    /\ IndexOK(row, Results_EMAIL_HEADER)
    /\ (fh > 0 => IndexOK(row, fh))
    /\ (Results_INTERNATIONAL_HEADER > 0
          => IndexOK(row, Results_INTERNATIONAL_HEADER))

RowEmail(row) == lower(Item(row, Results_EMAIL_HEADER))

RowFaculty(row, fh) ==
    IF fh > 0 THEN [present |-> TRUE, val |-> title(Item(row, fh))]
    ELSE [present |-> FALSE, val |-> <<>>]

RowInternational(row) ==
    IF Results_INTERNATIONAL_HEADER > 0
    THEN PyBool(Item(row, Results_INTERNATIONAL_HEADER)
                  = Results_INTERNATIONAL_LABEL)
    ELSE "None"

\* A mutation of the comparison: a missing email is looked up with a default
\* entry (students.get(email, ['', False])) instead of being voided.
VerdictDefaultEntry(studs, email, faculty, international) ==
    LET entry == IF email \in DOMAIN studs THEN studs[email] ELSE <<<<>>, "False">>
    IN IF faculty.present
       THEN IF lower(entry[1]) # lower(faculty.val)
            THEN [kind |-> "AffiliationMismatch",
                  reason |-> <<"Incorrect Faculty: Expected [">> \o faculty.val
                             \o <<"] Got [">> \o entry[1] \o <<"] ">>]
            ELSE [kind |-> "NoOutcome", reason |-> <<>>]
       ELSE IF entry[2] # international
       THEN [kind |-> "StatusMismatch",
             reason |-> <<"Incorrect International Status: Expected [",
                          international, "] Got [", entry[2], "]">>]
       ELSE [kind |-> "Accepted", reason |-> <<>>]

\* The if / elif chain that compares a row with the student list.  The branch
\* "elif faculty is not None" has no else: a row whose faculty agrees leaves
\* the chain with nothing written and nothing counted.
Verdict(studs, email, faculty, international) ==
    IF email \notin DOMAIN studs
    THEN [kind |-> "NotOnRoster", reason |-> <<"Not in Student List">>]
    ELSE IF faculty.present
    THEN IF lower(studs[email][1]) # lower(faculty.val)
         THEN [kind |-> "AffiliationMismatch",
               reason |-> <<"Incorrect Faculty: Expected [">> \o faculty.val
                          \o <<"] Got [">> \o studs[email][1] \o <<"] ">>]
         ELSE [kind |-> "NoOutcome", reason |-> <<>>]
    ELSE IF studs[email][2] # international
    THEN [kind |-> "StatusMismatch",
          reason |-> <<"Incorrect International Status: Expected [",
                       international, "] Got [", studs[email][2], "]">>]
    ELSE [kind |-> "Accepted", reason |-> <<>>]

-----------------------------------------------------------------------------
(* compile_validated_results.py *)

VALIDATED_STUDENTS_NUM_HEADERS == 3

S(t) == <<t>>

DEFAULT_CONFIG ==
    [ faculty_column |-> 3,
      user_column |-> 2,
      frc_votes |-> 2,
      exec_votes |-> 1,
      international_offset |-> 13,
      frc_offset |-> 4,
      frc_elections |-> <<S("Social Sciences"), S("Humanities"),
                          S("Health Sciences"), S("Business")>>,
      exec_offset |-> 15,
      exec_elections |-> <<S("VP Administration"), S("VP Internal"),
                           S("VP External"), S("VP Services"), S("President")>> ]

\* read_config once yaml.load has returned the document: every key of
\* DEFAULT_CONFIG the document lacks is added with its default value.
read_config(doc) ==
    [k \in DOMAIN doc \cup DOMAIN DEFAULT_CONFIG |->
        IF k \in DOMAIN doc THEN doc[k] ELSE DEFAULT_CONFIG[k]]

Range(seq) == {seq[i] : i \in 1..Len(seq)}

\* for name in names: election_columns[name] = current_col; current_col += step
RECURSIVE ColumnLoop(_, _, _, _)
ColumnLoop(cols, names, current_col, step) ==
    IF names = <<>> THEN cols
    ELSE ColumnLoop(Store(cols, Head(names), current_col), Tail(names),
                    current_col + step, step)

\* A mutation of the builder: the regional loop advances by one column.
build_election_columns_step1(cfg) ==
    LET c1 == Store(Store(<<>>, S("User"), cfg.user_column - 1),
                    S("Faculty"), cfg.faculty_column - 1)
        c2 == ColumnLoop(c1, cfg.frc_elections, cfg.frc_offset - 1, 1)
        c3 == Store(c2, S("International"), cfg.international_offset - 1)
    IN ColumnLoop(c3, cfg.exec_elections, cfg.exec_offset - 1, 1)

\* build_election_columns: a dict filled by assignments, a later assignment to
\* a name replacing an earlier one.
build_election_columns(cfg) ==
    LET c1 == Store(Store(<<>>, S("User"), cfg.user_column - 1),
                    S("Faculty"), cfg.faculty_column - 1)
        c2 == ColumnLoop(c1, cfg.frc_elections, cfg.frc_offset - 1, cfg.frc_votes)
        c3 == Store(c2, S("International"), cfg.international_offset - 1)
    IN ColumnLoop(c3, cfg.exec_elections, cfg.exec_offset - 1, 1)

\* The names create_election_files opens a file for.
ElectionNames(cfg) ==
    Range(cfg.frc_elections) \cup Range(cfg.exec_elections) \cup {S("International")}

create_election_files(cfg) == [n \in ElectionNames(cfg) |-> "open"]
close_election_files(files) == [n \in DOMAIN files |-> "closed"]

\* A mutation: the eligibility flag is tested at the mapped column itself.
FlagColumnMapped(cols) == cols[S("International")]

\* row[election_columns['International']-1] == 'Yes'
FlagColumn(cols) == cols[S("International")] - 1

Read(kind, contest, slot, idx) ==
    [kind |-> kind, contest |-> contest, slot |-> slot, idx |-> idx]

\* The subscripts one pass of the row loop evaluates, in order, when none of
\* them raises.
RowReads(cfg, cols, row) ==
    LET ucol == cols[S("User")]
        fcol == cols[S("Faculty")]
        faculty == Item(row, fcol)
        regional ==
            IF IndexOK(row, ucol) /\ IndexOK(row, fcol)
               /\ faculty \in Range(cfg.frc_elections)
            THEN [i \in 1..cfg.frc_votes |->
                    Read("vote", faculty, i - 1, cols[faculty] + (i - 1))]
            ELSE <<>>
        flag == FlagColumn(cols)
        international ==
            IF IndexOK(row, flag) /\ Item(row, flag) = S("Yes")
            THEN [i \in 1..cfg.frc_votes |->
                    Read("vote", S("International"), i - 1,
                         cols[S("International")] + (i - 1))]
            ELSE <<>>
        n == Len(cfg.exec_elections)
        executive ==
            [k \in 1..(cfg.exec_votes * n) |->
                LET i == (k - 1) \div n
                    exec_role == cfg.exec_elections[((k - 1) % n) + 1]
                IN Read("vote", exec_role, i, cols[exec_role] + i)]
    IN <<Read("user", S("User"), 0, ucol), Read("faculty", S("Faculty"), 0, fcol)>>
       \o regional \o <<Read("flag", S("International"), 0, flag)>>
       \o international \o executive

\* How many of the reads succeed before the first IndexError.
RECURSIVE ReadsDone(_, _)
ReadsDone(row, rs) ==
    IF rs = <<>> \/ ~IndexOK(row, Head(rs).idx) THEN 0
    ELSE 1 + ReadsDone(row, Tail(rs))

\* A mutation of the empty-vote test: the vote is written whatever it is.
write_vote_unchecked(out, contest, user, vote) ==
    [out EXCEPT !.streams[contest] = Append(@, <<user, vote>>)]

\* if vote == '': print("Warning: ...") else: election_files[...].write(...)
write_vote(out, contest, user, vote) ==
    IF vote = <<>>
    THEN [out EXCEPT !.warned[contest] = @ + 1]
    ELSE [out EXCEPT !.streams[contest] = Append(@, <<user, vote>>)]

\* The effect of the reads that succeeded, in order.
RECURSIVE ApplyReads(_, _, _, _)
ApplyReads(out, row, user, rs) ==
    IF rs = <<>> THEN out
    ELSE LET r == Head(rs)
             next == IF r.kind = "vote"
                     THEN write_vote(out, r.contest, user, Item(row, r.idx))
                     ELSE out
         IN ApplyReads(next, row, user, Tail(rs))

\* The vote slots among the reads, counted by whether the slot is empty.
RECURSIVE CountSlots(_, _, _)
CountSlots(cnt, row, rs) ==
    IF rs = <<>> THEN cnt
    ELSE LET r == Head(rs)
             next == IF r.kind # "vote" THEN cnt
                     ELSE IF Item(row, r.idx) = <<>>
                     THEN [cnt EXCEPT ![r.contest].empty = @ + 1]
                     ELSE [cnt EXCEPT ![r.contest].filled = @ + 1]
         IN CountSlots(next, row, Tail(rs))

-----------------------------------------------------------------------------
(* The validated file as the compilation stage reads it *)

\* next(validated_f): the text after the first n line feeds
RECURSIVE skip_lines(_, _)
skip_lines(text, n) ==
    IF n = 0 \/ text = <<>> THEN text
    ELSE skip_lines(Tail(text), IF Head(text) = LF THEN n - 1 ELSE n)

\* csv.reader with the default dialect (delimiter ',', quotechar '"',
\* doublequote, not strict), one token at a time.  A line feed outside a quoted
\* field ends the record; a blank line yields the empty record.
RECURSIVE csv_reader(_, _, _, _, _)
csv_reader(text, state, field, fields, rows) ==
    IF text = <<>>
    THEN IF field # <<>> \/ state = "IN_QUOTED_FIELD"
         THEN Append(rows, Append(fields, field))
         ELSE rows
    ELSE
    LET c == Head(text)
        rest == Tail(text)
        EndRecord == csv_reader(rest, "START_RECORD", <<>>, <<>>,
                                Append(rows, Append(fields, field)))
        EndField == csv_reader(rest, "START_FIELD", <<>>, Append(fields, field), rows)
        AddChar(st) == csv_reader(rest, st, Append(field, c), fields, rows)
    IN CASE state = "START_RECORD" /\ c = LF ->
              csv_reader(rest, "START_RECORD", <<>>, <<>>, Append(rows, <<>>))
         [] state \in {"START_RECORD", "START_FIELD"} /\ c # LF ->
              IF c = QUOTE THEN csv_reader(rest, "IN_QUOTED_FIELD", field, fields, rows)
              ELSE IF c = COMMA THEN EndField
              ELSE AddChar("IN_FIELD")
         [] state = "START_FIELD" /\ c = LF -> EndRecord
         [] state = "IN_FIELD" ->
              IF c = LF THEN EndRecord
              ELSE IF c = COMMA THEN EndField
              ELSE AddChar("IN_FIELD")
         [] state = "IN_QUOTED_FIELD" ->
              IF c = QUOTE
              THEN csv_reader(rest, "QUOTE_IN_QUOTED_FIELD", field, fields, rows)
              ELSE AddChar("IN_QUOTED_FIELD")
         [] state = "QUOTE_IN_QUOTED_FIELD" ->
              IF c = QUOTE THEN AddChar("IN_QUOTED_FIELD")
              ELSE IF c = COMMA THEN EndField
              ELSE IF c = LF THEN EndRecord
              ELSE AddChar("IN_FIELD")

FileText(f) == Flatten([i \in 1..Len(f) |-> f[i].text])

\* with open(validated_file) as validated_f:
\*     [next(validated_f) for i in range(VALIDATED_STUDENTS_NUM_HEADERS)]
\*     reader = csv.reader(validated_f); for row in reader
read_validated_rows(f) ==
    csv_reader(skip_lines(FileText(f), VALIDATED_STUDENTS_NUM_HEADERS),
               "START_RECORD", <<>>, <<>>, <<>>)

-----------------------------------------------------------------------------
(* Inputs of the compilation stage *)

MaxCompileRows == 2

ConfigKeys == DOMAIN DEFAULT_CONFIG

FullDocs ==
    { [ user_column |-> 1, faculty_column |-> 2, frc_offset |-> 3,
        frc_votes |-> fv, exec_votes |-> ev, international_offset |-> io,
        frc_elections |-> fe, exec_offset |-> eo, exec_elections |-> ee ] :
        fv \in {1, 2}, ev \in {1, 2}, io \in {4, 5}, eo \in {5, 6},
        fe \in { <<S("Sci")>>, <<S("Sci"), S("Hum")>>,
                 <<S("Sci"), S("International")>>, <<S("Sci"), S("Sci")>> },
        ee \in { <<S("President")>>, <<S("President"), S("Sci")>> } }

BaseDoc ==
    [ user_column |-> 1, faculty_column |-> 2, frc_offset |-> 3,
      frc_votes |-> 1, exec_votes |-> 1, international_offset |-> 5,
      frc_elections |-> <<S("Sci")>>, exec_offset |-> 6,
      exec_elections |-> <<S("President")>> ]

PartialDocs ==
    { [k \in ConfigKeys \ K |-> BaseDoc[k]] :
        K \in { {"frc_votes"}, {"exec_elections"}, {"exec_offset", "exec_elections"},
                {"user_column", "faculty_column"},
                ConfigKeys \ {"frc_votes"} } }

ConfigDocs == FullDocs \cup PartialDocs

CompileFields == {<<>>, S("Yes")}
CompileRows ==
    UNION { { SubSeq(<<S("u"), f, a, b, c, d>>, 1, n) :
                f \in {S("Sci"), S("Hum")}, a \in CompileFields,
                b \in CompileFields, c \in CompileFields, d \in CompileFields } :
            n \in 3..6 }

-----------------------------------------------------------------------------
(* compile_validated_results.py, __main__ and compile_validated_results *)

CompileIdle ==
    /\ opts_config = [given |-> FALSE, doc |-> <<>>]
    /\ config = [bound |-> FALSE, val |-> <<>>]
    /\ election_columns = <<>>
    /\ election_files = <<>>
    /\ streams = <<>>
    /\ vote_warnings = <<>>
    /\ slots = <<>>
    /\ reads = <<>>
    /\ nrows = 0

ValidateIdle ==
    /\ FACULTY_HEADER = -1
    /\ roster_file = <<>>
    /\ students = <<>>
    /\ results_header = <<>>
    /\ voided_file = <<>>
    /\ validated_file = <<>>
    /\ void_f = "none"
    /\ validate_f = "none"
    /\ summary = [entries |-> 0, validated |-> 0, voided |-> 0]
    /\ warnings = 0
    /\ last = [row |-> <<>>, verdict |-> "none"]

InitCompile ==
    /\ pc = "main"
    /\ ValidateIdle
    /\ \/ opts_config = [given |-> FALSE, doc |-> <<>>]
       \/ \E doc \in ConfigDocs : opts_config = [given |-> TRUE, doc |-> doc]
    /\ config = [bound |-> FALSE, val |-> <<>>]
    /\ election_columns = <<>>
    /\ election_files = <<>>
    /\ streams = <<>>
    /\ vote_warnings = <<>>
    /\ slots = <<>>
    /\ reads = <<>>
    /\ nrows = 0
    /\ compiled_rows = <<>>

\* if opts.config is not None: config = read_config(opts.config)
\* Without --config nothing is assigned to the name config.
ReadConfig ==
    /\ pc = "main"
    /\ config' = IF opts_config.given
                 THEN [bound |-> TRUE, val |-> read_config(opts_config.doc)]
                 ELSE config
    /\ pc' = "call_compile"
    /\ UNCHANGED <<opts_config, election_columns, election_files, streams,
                   vote_warnings, slots, reads, nrows>>
    /\ UNCHANGED <<FACULTY_HEADER, roster_file, students, results_header,
                   voided_file, validated_file, void_f, validate_f, summary,
                   warnings, last, compiled_rows>>

\* compile_validated_results(opts.file, config, opts.directory): evaluating
\* the unbound name raises NameError; otherwise the files are created and
\* the column map is built.
CallCompile ==
    /\ pc = "call_compile"
    /\ IF config.bound
       THEN /\ election_files' = create_election_files(config.val)
            /\ election_columns' = build_election_columns(config.val)
            /\ streams' = [n \in ElectionNames(config.val) |-> <<>>]
            /\ vote_warnings' = [n \in ElectionNames(config.val) |-> 0]
            /\ slots' = [n \in ElectionNames(config.val) |->
                           [empty |-> 0, filled |-> 0]]
            /\ pc' = "compile_rows"
       ELSE /\ pc' = "NameError"
            /\ UNCHANGED <<election_files, election_columns, streams,
                           vote_warnings, slots>>
    /\ UNCHANGED <<opts_config, config, reads, nrows>>
    /\ UNCHANGED <<FACULTY_HEADER, roster_file, students, results_header,
                   voided_file, validated_file, void_f, validate_f, summary,
                   warnings, last, compiled_rows>>

\* One pass of "for row in reader": the reads are made in order, each vote
\* slot read is written or warned about, and the first subscript out of range
\* raises IndexError, which nothing catches.
CompileRow(row) ==
    /\ pc = "compile_rows"
    /\ nrows < MaxCompileRows
    /\ LET rs == RowReads(config.val, election_columns, row)
           done == ReadsDone(row, rs)
           user == Item(row, election_columns[S("User")])
           out == ApplyReads([streams |-> streams, warned |-> vote_warnings],
                             row, user, SubSeq(rs, 1, done))
       IN /\ streams' = out.streams
          /\ vote_warnings' = out.warned
          /\ slots' = CountSlots(slots, row, SubSeq(rs, 1, done))
          /\ reads' = SubSeq(rs, 1, IF done < Len(rs) THEN done + 1 ELSE done)
          /\ pc' = IF done < Len(rs) THEN "IndexError" ELSE pc
    /\ nrows' = nrows + 1
    /\ UNCHANGED <<opts_config, config, election_columns, election_files>>
    /\ UNCHANGED <<FACULTY_HEADER, roster_file, students, results_header,
                   voided_file, validated_file, void_f, validate_f, summary,
                   warnings, last, compiled_rows>>

\* The reader is exhausted: close_election_files(election_files)
CloseElectionFiles ==
    /\ pc = "compile_rows"
    /\ election_files' = close_election_files(election_files)
    /\ pc' = "compiled"
    /\ UNCHANGED <<opts_config, config, election_columns, streams,
                   vote_warnings, slots, reads, nrows>>
    /\ UNCHANGED <<FACULTY_HEADER, roster_file, students, results_header,
                   voided_file, validated_file, void_f, validate_f, summary,
                   warnings, last, compiled_rows>>

NextCompile ==
    \/ ReadConfig
    \/ CallCompile
    \/ \E row \in CompileRows : CompileRow(row)
    \/ CloseElectionFiles

SpecCompile == InitCompile /\ [][NextCompile]_vars

-----------------------------------------------------------------------------
(* Inputs of the validation stage *)

RosterEmails == {<<"a">>, <<"B">>}
RosterRows ==
    { <<f, <<"x">>, <<"x">>, <<"x">>, <<"x">>, e, v>> :
        f \in {<<"SCIENCE">>, <<"Arts">>}, e \in RosterEmails,
        v \in {<<"Visa">>, <<>>} }
    \cup { <<<<"SCIENCE">>, <<"x">>, <<"x">>, <<"x">>, <<"x">>, <<"a">>>> }

BallotHeaders(fh) ==
    IF fh > 0
    THEN { <<<<"Timestamp">>, <<"Email">>, <<"International">>, <<"Faculty">>>> }
    ELSE { <<<<"Timestamp">>, <<"Email">>, <<"International">>>> }

BallotEmails == {<<"A">>, <<"b">>}
BallotRows(fh) ==
    IF fh > 0
    THEN { <<<<"t">>, e, i, f>> : e \in BallotEmails, i \in {<<"Yes">>, <<"No">>},
                                   f \in {<<"science">>, <<"arts">>} }
         \cup { <<<<"t">>, <<"A">>, <<"Yes">>>>, <<<<"t">>>> }
    ELSE { <<<<"t">>, e, i>> : e \in BallotEmails, i \in {<<"Yes">>, <<"No">>} }
         \cup { <<<<"t">>, <<"A">>>>, <<<<"t">>>> }

StaleFile == << Write("row", <<<<"old">>>>, <<"old", LF>>) >>

-----------------------------------------------------------------------------
(* validate_results_list, step by step *)

InitValidate ==
    /\ pc = "read_students"
    /\ FACULTY_HEADER \in {-1, 3}
    /\ roster_file = <<>>
    /\ students = <<>>
    /\ results_header = <<>>
    /\ \E stale \in BOOLEAN :
         /\ voided_file = IF stale THEN StaleFile ELSE <<>>
         /\ validated_file = IF stale THEN StaleFile ELSE <<>>
    /\ void_f = "none"
    /\ validate_f = "none"
    /\ summary = [entries |-> 0, validated |-> 0, voided |-> 0]
    /\ warnings = 0
    /\ last = [row |-> <<>>, verdict |-> "none"]
    /\ CompileIdle
    /\ compiled_rows = <<>>

\* for row in reader (read_student_list)
ReadStudentRow(row) ==
    /\ pc = "read_students"
    /\ Len(roster_file) < MaxRoster
    /\ roster_file' = Append(roster_file, row)
    /\ students' = read_student_row(students, row)
    /\ UNCHANGED <<pc, FACULTY_HEADER, results_header, voided_file,
                   validated_file, void_f, validate_f, summary, warnings, last>>
    /\ UNCHANGED <<cvars, compiled_rows>>

\* The student list is exhausted; the ballot file is opened, its header row is
\* read and write_results_header(voided_file, ...) runs.
WriteVoidedHeader(header) ==
    /\ pc = "read_students"
    /\ results_header' = header
    /\ voided_file' = write_results_header(<<"VOIDED STUDENTS">>,
                                           Append(header, <<"Reason">>))
    /\ pc' = "validated_header"
    /\ UNCHANGED <<FACULTY_HEADER, roster_file, students, validated_file,
                   void_f, validate_f, summary, warnings, last>>
    /\ UNCHANGED <<cvars, compiled_rows>>

WriteValidatedHeader ==
    /\ pc = "validated_header"
    /\ validated_file' = write_results_header(<<"VALIDATED STUDENTS">>,
                                              results_header)
    /\ pc' = "open_append"
    /\ UNCHANGED <<FACULTY_HEADER, roster_file, students, results_header,
                   voided_file, void_f, validate_f, summary, warnings, last>>
    /\ UNCHANGED <<cvars, compiled_rows>>

\* void_f = open(voided_file, 'a'); validate_f = open(validated_file, 'a')
OpenAppend ==
    /\ pc = "open_append"
    /\ void_f' = "open"
    /\ validate_f' = "open"
    /\ pc' = "rows"
    /\ UNCHANGED <<FACULTY_HEADER, roster_file, students, results_header,
                   voided_file, validated_file, summary, warnings, last>>
    /\ UNCHANGED <<cvars, compiled_rows>>

\* One pass of "for row in reader".
ProcessRow(row) ==
    /\ pc = "rows"
    /\ summary.entries < MaxRows
    /\ IF ~RowParses(row, FACULTY_HEADER)
       THEN /\ warnings' = warnings + 1
            /\ summary' = [summary EXCEPT !.entries = @ + 1]
            /\ last' = [row |-> row, verdict |-> "Malformed"]
            /\ UNCHANGED <<voided_file, validated_file>>
       ELSE LET v == Verdict(students, RowEmail(row),
                             RowFaculty(row, FACULTY_HEADER),
                             RowInternational(row))
            IN /\ last' = [row |-> row, verdict |-> v.kind]
               /\ warnings' = warnings
               /\ CASE v.kind = "Accepted" ->
                         /\ validated_file' = validate_student(validated_file, row)
                         /\ summary' = [summary EXCEPT !.entries = @ + 1,
                                                       !.validated = @ + 1]
                         /\ UNCHANGED voided_file
                    [] v.kind = "NoOutcome" ->
                         /\ summary' = [summary EXCEPT !.entries = @ + 1]
                         /\ UNCHANGED <<voided_file, validated_file>>
                    [] OTHER ->
                         /\ voided_file' = void_student(voided_file, row, v.reason)
                         /\ summary' = [summary EXCEPT !.entries = @ + 1,
                                                       !.voided = @ + 1]
                         /\ UNCHANGED validated_file
    /\ UNCHANGED <<pc, FACULTY_HEADER, roster_file, students, results_header,
                   void_f, validate_f>>
    /\ UNCHANGED <<cvars, compiled_rows>>

\* The ballot file is exhausted: void_f.close(); validate_f.close(); summary.
CloseResults ==
    /\ pc = "rows"
    /\ void_f' = "closed"
    /\ validate_f' = "closed"
    /\ pc' = "done"
    /\ UNCHANGED <<FACULTY_HEADER, roster_file, students, results_header,
                   voided_file, validated_file, summary, warnings, last>>
    /\ UNCHANGED <<cvars, compiled_rows>>

Init == InitValidate

Next ==
    \/ \E row \in RosterRows : ReadStudentRow(row)
    \/ \E header \in BallotHeaders(FACULTY_HEADER) : WriteVoidedHeader(header)
    \/ WriteValidatedHeader
    \/ OpenAppend
    \/ \E row \in BallotRows(FACULTY_HEADER) : ProcessRow(row)
    \/ CloseResults

Spec == Init /\ [][Next]_vars

-----------------------------------------------------------------------------
(* The two stages in sequence: the validated file written by the first stage *)
(* is the file the second stage reads.                                       *)

MaxFieldLen == 1

CsvTokens == {"x", COMMA, QUOTE, LF}
CsvFields == UNION { [1..n -> CsvTokens] : n \in 0..MaxFieldLen }

PipelineRosterRows ==
    { <<S("SCIENCE"), S("x"), S("x"), S("x"), S("x"), S("a"), S("Visa")>> }
PipelineHeaders == { <<S("Timestamp"), S("Email"), S("International"), h>> : h \in CsvFields }
PipelineRows ==
    { <<t, S("A"), S("Yes"), v>> : t \in CsvFields, v \in CsvFields }
    \cup { <<S("t"), S("b"), S("Yes"), S("x")>> }

InitPipeline ==
    /\ pc = "read_students"
    /\ FACULTY_HEADER = -1
    /\ roster_file = <<>>
    /\ students = <<>>
    /\ results_header = <<>>
    /\ voided_file = <<>>
    /\ validated_file = <<>>
    /\ void_f = "none"
    /\ validate_f = "none"
    /\ summary = [entries |-> 0, validated |-> 0, voided |-> 0]
    /\ warnings = 0
    /\ last = [row |-> <<>>, verdict |-> "none"]
    /\ CompileIdle
    /\ compiled_rows = <<>>

\* The compilation stage opens the validated file and reads its rows.
ReadValidated ==
    /\ pc = "done"
    /\ compiled_rows' = read_validated_rows(validated_file)
    /\ pc' = "compile_read"
    /\ UNCHANGED <<FACULTY_HEADER, roster_file, students, results_header,
                   voided_file, validated_file, void_f, validate_f, summary,
                   warnings, last>>
    /\ UNCHANGED cvars

NextPipeline ==
    \/ \E row \in PipelineRosterRows : ReadStudentRow(row)
    \/ \E header \in PipelineHeaders : WriteVoidedHeader(header)
    \/ WriteValidatedHeader
    \/ OpenAppend
    \/ \E row \in PipelineRows : ProcessRow(row)
    \/ CloseResults
    \/ ReadValidated

SpecPipeline == InitPipeline /\ [][NextPipeline]_vars

-----------------------------------------------------------------------------
(* Properties of the validation stage *)

Preambled == pc \in {"open_append", "rows", "done", "compile_read"}

\* The data rows a file holds after its three-line preamble.
DataRows(f) == [i \in 1..(Len(f) - 3) |-> f[i + 3]]

\* The roster identities, lower-cased, taken from the records of the student
\* list that have all three positions.
RosterIds ==
    { lower(Item(roster_file[i], StudentList_EMAIL_HEADER)) :
        i \in { j \in 1..Len(roster_file) : StudentParses(roster_file[j]) } }

\* C1: every data row read is written once to the validated file, written once
\* to the voided file, or skipped with a malformed-row warning, so that
\* entries = validated + voided + skipped, and the two counters equal the
\* numbers of rows the two files received.
C1_EveryRowOneOutcome ==
    pc \in {"rows", "done"} =>
        /\ summary.validated = Len(DataRows(validated_file))
        /\ summary.voided = Len(DataRows(voided_file))
        /\ summary.entries = summary.validated + summary.voided + warnings

\* The verdict the decision order of C2 gives a well-formed row.
OrderedVerdict(row) ==
    LET email == RowEmail(row)
        faculty == RowFaculty(row, FACULTY_HEADER)
        international == RowInternational(row)
    IN IF email \notin DOMAIN students THEN "NotOnRoster"
       ELSE IF faculty.present /\ lower(students[email][1]) # lower(faculty.val)
       THEN "AffiliationMismatch"
       ELSE IF students[email][2] # international THEN "StatusMismatch"
       ELSE "Accepted"

\* C2: the verdict on a well-formed row is the first failing check in the
\* order NotOnRoster, AffiliationMismatch (when the format carries an
\* affiliation), StatusMismatch, and Accepted when no check fails.
C2_VerdictIsFirstFailingCheck ==
    last.verdict \notin {"none", "Malformed"} =>
        last.verdict = OrderedVerdict(last.row)

\* C3: a well-formed row whose lower-cased identity is not a lower-cased
\* roster identity is appended to the voided file with the reason
\* 'Not in Student List', and the validated file never holds such a row.
C3_NotOnRosterIsVoided ==
    /\ Preambled =>
         \A i \in 1..Len(DataRows(validated_file)) :
            RowEmail(DataRows(validated_file)[i].row) \in RosterIds
    /\ (last.verdict \notin {"none", "Malformed"} /\ RowEmail(last.row) \notin RosterIds) =>
         /\ last.verdict = "NotOnRoster"
         /\ Len(voided_file) > 3
         /\ voided_file[Len(voided_file)] =
              Write("row", Append(last.row, <<"Not in Student List">>),
                    join(last.row) \o <<COMMA, "Not in Student List">> \o linesep)

C3_Witness ==
    /\ pc = "done"
    /\ last.verdict = "NotOnRoster"
    /\ RosterIds # {}
    /\ Len(DataRows(validated_file)) > 0

IsPreamble(f, label, header_row) ==
    /\ Len(f) >= 3
    /\ f[1] = Write("comment", <<>>, <<"# ", label, LF>>)
    /\ f[2] = Write("comment", <<>>, <<"# ", "Results From ", "<now>", LF>>)
    /\ f[3] = Write("header", header_row, join(header_row) \o <<LF>>)
    /\ \A i \in 4..Len(f) : f[i].kind = "row"

\* C8: each output file receives its preamble (label comment, timestamp
\* comment, header line; the voided header with the extra 'Reason' field)
\* exactly once, before any data row is appended to either file, and no
\* preamble line follows a data row.
C8_PreambleOnceBeforeRows ==
    /\ pc \in {"read_students", "validated_header"} => summary.entries = 0
    /\ pc = "validated_header" =>
         /\ IsPreamble(voided_file, "VOIDED STUDENTS", Append(results_header, <<"Reason">>))
         /\ Len(voided_file) = 3
    /\ Preambled =>
         /\ IsPreamble(voided_file, "VOIDED STUDENTS", Append(results_header, <<"Reason">>))
         /\ IsPreamble(validated_file, "VALIDATED STUDENTS", results_header)
         /\ Len(DataRows(validated_file)) + Len(DataRows(voided_file)) <= summary.entries

C8_Witness ==
    /\ pc = "done"
    /\ Len(DataRows(validated_file)) > 0
    /\ Len(DataRows(voided_file)) > 0

-----------------------------------------------------------------------------
(* Properties of the compilation stage *)

Built == pc \in {"compile_rows", "compiled", "IndexError"}

\* The column positions C4 states for a configuration.
ColumnsByPosition(cfg, cols) ==
    /\ \A i \in 1..Len(cfg.frc_elections) :
          cols[cfg.frc_elections[i]] = (cfg.frc_offset - 1) + (i - 1) * cfg.frc_votes
    /\ \A i \in 1..Len(cfg.exec_elections) :
          cols[cfg.exec_elections[i]] = (cfg.exec_offset - 1) + (i - 1)
    /\ cols[S("User")] = cfg.user_column - 1
    /\ cols[S("Faculty")] = cfg.faculty_column - 1
    /\ cols[S("International")] = cfg.international_offset - 1

\* No contest is declared twice, and none bears a name the map uses itself.
DistinctNames(cfg) ==
    LET names == cfg.frc_elections \o cfg.exec_elections
                 \o <<S("User"), S("Faculty"), S("International")>>
    IN \A i, j \in 1..Len(names) : names[i] = names[j] => i = j

\* C4 as stated: for every configuration, the regional contest at position i
\* is mapped to (frc_offset - 1) + i * frc_votes, the at-large contest at
\* position i to (exec_offset - 1) + i, and each single column to its
\* configured value minus 1.
C4_ColumnsByPosition ==
    Built => ColumnsByPosition(config.val, election_columns)

\* C4 amended: the same, for every configuration whose contest names are
\* pairwise distinct and differ from 'User', 'Faculty' and 'International'.
C4_ColumnsByPositionDistinctNames ==
    (Built /\ DistinctNames(config.val)) =>
        ColumnsByPosition(config.val, election_columns)

C4_Witness ==
    /\ Built
    /\ DistinctNames(config.val)
    /\ Len(config.val.frc_elections) = 2
    /\ config.val.frc_votes = 2

\* C5: no contest's file holds a record with an empty vote; every empty vote
\* slot read gave one warning and no record, and every filled slot read gave
\* exactly one record in the file of its contest.
C5_NoEmptyVoteWritten ==
    \A n \in DOMAIN streams :
        /\ \A i \in 1..Len(streams[n]) : streams[n][i][2] # <<>>
        /\ Len(streams[n]) = slots[n].filled
        /\ vote_warnings[n] = slots[n].empty

C5_Witness ==
    /\ pc = "compiled"
    /\ \E n \in DOMAIN streams : slots[n].empty > 0 /\ slots[n].filled > 0
    /\ slots[S("International")].empty > 0

\* C6: every output file handle that was opened is closed when the run ends,
\* on normal completion and when a row raises an error.
C6_HandlesClosedOnEveryExit ==
    /\ pc \in {"compiled", "IndexError"} =>
         \A n \in DOMAIN election_files : election_files[n] = "closed"
    /\ pc = "done" => (void_f = "closed" /\ validate_f = "closed")

\* C7: without --config the run reaches compile_validated_results with the
\* default of every option; with a document, each key it sets has the user's
\* value and each recognized key it omits has the default.
C7_ConfigIsOptional ==
    pc \notin {"main", "call_compile"} =>
        /\ pc # "NameError"
        /\ config.bound
        /\ IF opts_config.given
           THEN /\ DOMAIN DEFAULT_CONFIG \subseteq DOMAIN config.val
                /\ \A k \in DOMAIN opts_config.doc :
                      config.val[k] = opts_config.doc[k]
                /\ \A k \in DOMAIN DEFAULT_CONFIG \ DOMAIN opts_config.doc :
                      config.val[k] = DEFAULT_CONFIG[k]
           ELSE config.val = DEFAULT_CONFIG

-----------------------------------------------------------------------------
(* Property of the two stages in sequence *)

AcceptedRows == [i \in 1..Len(DataRows(validated_file)) |-> DataRows(validated_file)[i].row]

\* C10: the rows the compilation stage parses from the validated file, after
\* skipping VALIDATED_STUDENTS_NUM_HEADERS lines, are the rows the validation
\* stage accepted, row for row and field for field, whatever tokens the
\* header and the ballot fields hold.
C10_ValidatedFileRoundTrip ==
    pc = "compile_read" => compiled_rows = AcceptedRows

====
